---- MODULE Spec2Model ----
(***************************************************************************)
(* A model of the M,N,K game engine (games/mnk_game.py) and of the state   *)
(* explorer that enumerates its positions (state_dataset/dataset.py).      *)
(*                                                                         *)
(* Python objects live in a heap: a game state object holds a reference to *)
(* its numpy board and a reference to its returns list, so that copying    *)
(* and aliasing are things the model can tell apart.                       *)
(***************************************************************************)
EXTENDS Integers, Sequences, FiniteSets, TLC

VARIABLES
    game,      \* the MNKGame the run is about: [m, n, base_k, rules]
    arrays,    \* heap of numpy boards: reference -> board
    lists,     \* heap of returns lists: reference -> list
    objs,      \* heap of MNKGameState objects: reference -> fields
    call,      \* the last call made on a state object, with the object's value before it
    movers,    \* the player who placed each stone so far, in order
    phase,     \* of GameStateDataset.__init__: "idle", "running", "done", "raised"
    max_depth, \* max_depth_limit: <<>> for None, <<d>> for the integer d
    stack,     \* the frames of generate_all_states, the innermost last
    visited,   \* the visited dict: key -> position in ds of the info it holds
    ds,        \* GameStateDataset._items
    viewHeap,  \* heap of GameStateView objects: reference -> its _items list
    sampler    \* build_sampler: the view its variable `view` names, and how it stands

explorerVars == <<phase, max_depth, stack, visited, ds>>

samplerVars == <<viewHeap, sampler>>

vars == <<game, arrays, lists, objs, call, movers, phase, max_depth, stack, visited, ds,
          viewHeap, sampler>>

----------------------------------------------------------------------------
(* Bounds of the model. *)

\* largest number of rows or columns of a board
MaxDim == 3
\* largest number of cells of a board
MaxCells == 6
\* largest opening-move count a rule set configures
MaxOpening == 2
\* largest number of cells of a board whose states are enumerated
MaxExploreCells == 4
\* the largest max_depth_limit a dataset is built with
MaxDepthLimit == 2
\* most calls a caller that passes arbitrary indices makes on one state
MaxCalls == 3
\* largest number of cells of a board whose state is cloned
MaxCloneCells == 4

----------------------------------------------------------------------------
(* Values of the program. *)

\* mnk_game.py:11  "Board: -1=empty, 0=Player1 (X), 1=Player2 (O)"
EMPTY == -1

\* the value _check_outcome returns when no line is found (Python None)
NoOutcome == 0

Players == {0, 1}

\* dict.get(key, default)
DictGet(d, key, default) == IF key \in DOMAIN d THEN d[key] ELSE default

\* The rule sets the model draws games from.  A key that is absent from a
\* dict is absent from the function's domain, so the defaults of the code are
\* exercised.
OpeningMovesMaps == UNION { [D -> 2..MaxOpening] : D \in SUBSET Players }

\* {0: ["h","v"], 1: ["h","v"]} is the rule set of dataset.py's example game;
\* "x" is a key get_valid_directions has no vector for.
AllowedDirectionsMaps ==
    { <<>>,
      [p \in Players |-> <<"h", "v">>],
      [p \in {0} |-> <<"d1", "d2">>],
      [p \in {1} |-> <<"h", "x">>] }

ExtraKMaps == { <<>>, [p \in {0} |-> 1], [p \in {1} |-> 1] }

RuleSets ==
    { [opening_moves |-> om, misere |-> mi, allowed_directions |-> ad, extra_k |-> ek] :
        om \in OpeningMovesMaps, mi \in BOOLEAN,
        ad \in AllowedDirectionsMaps, ek \in ExtraKMaps }

----------------------------------------------------------------------------
(* MNKGame *)

\* MNKGame.get_win_length
get_win_length(g, player_id) == g.base_k + DictGet(g.rules.extra_k, player_id, 0)

DirectionVector(key) ==
    CASE key = "h"  -> <<0, 1>>
      [] key = "v"  -> <<1, 0>>
      [] key = "d1" -> <<1, 1>>
      [] key = "d2" -> <<1, -1>>

DirectionKeys == {"h", "v", "d1", "d2"}

\* MNKGame.get_valid_directions: the vectors of the keys that have a mapping
get_valid_directions(g, player_id) ==
    LET keys == DictGet(g.rules.allowed_directions, player_id, <<"h", "v", "d1", "d2">>)
    IN  { DirectionVector(keys[i]) : i \in { j \in DOMAIN keys : keys[j] \in DirectionKeys } }

Max2(a, b) == IF a >= b THEN a ELSE b
Min2(a, b) == IF a <= b THEN a ELSE b

\* MNKGame.__init__: TRUE when the constructor raises ValueError
ConstructorRaises_smaller_side(g) ==
    Min2(g.m, g.n) < Max2(get_win_length(g, 0), get_win_length(g, 1))
ConstructorRaises(g) ==
    LET max_k_needed == Max2(get_win_length(g, 0), get_win_length(g, 1))
    IN  Min2(g.m, g.n) < max_k_needed /\ Max2(g.m, g.n) < max_k_needed

\* The games that can be constructed within the bounds.
Games ==
    { g \in [m : 1..MaxDim, n : 1..MaxDim, base_k : 1..MaxDim, rules : RuleSets] :
        g.m * g.n <= MaxCells /\ ~ConstructorRaises(g) }

Cells(g) == (0..(g.m - 1)) \X (0..(g.n - 1))

----------------------------------------------------------------------------
(* MNKGameState *)

\* MNKGameState._get_opening_moves, reading the object's move count
get_opening_moves_at_any_time(g, move_count, player_id) ==
    DictGet(g.rules.opening_moves, player_id, 1)
get_opening_moves(g, move_count, player_id) ==
    IF move_count <= 1
    THEN DictGet(g.rules.opening_moves, player_id, 1)
    ELSE 1

\* A heap maps the references in use to values.  A new value gets the
\* smallest reference not in use.
NewRef(heap) ==
    LET n == Cardinality(DOMAIN heap)
        unused == (1..(n + 1)) \ DOMAIN heap
    IN  IF DOMAIN heap = 1..n
        THEN n + 1
        ELSE CHOOSE i \in unused : \A j \in unused : i <= j

Alloc(heap, value) ==
    IF DOMAIN heap = 1..Cardinality(DOMAIN heap)
    THEN Append(heap, value)
    ELSE (NewRef(heap) :> value) @@ heap

\* a function as the table of its values
Table(f) == f @@ <<>>

\* np.full(shape, value) and [value] * n: the value at every index
Full(D, value) == Table([x \in D |-> value])

\* The heap after MNKGameState.__init__ allocated a new object; the new
\* object's reference is NewRef(H.objs).
NewState(H, g) ==
    [ arrays |-> Alloc(H.arrays, Full(Cells(g), EMPTY)),
      lists  |-> Alloc(H.lists, Full(Players, 0)),
      objs   |-> Alloc(H.objs,
                   [ board |-> NewRef(H.arrays),
                     returns |-> NewRef(H.lists),
                     current_player |-> 0,
                     game_over |-> FALSE,
                     move_count |-> 0,
                     moves_remaining_in_turn |-> get_opening_moves(g, 0, 0) ]) ]

Heap == [arrays |-> arrays, lists |-> lists, objs |-> objs]

EmptyHeap == [arrays |-> <<>>, lists |-> <<>>, objs |-> <<>>]

\* The value of a state object: what its fields hold, references followed.
View(H, s) ==
    [ board |-> H.arrays[H.objs[s].board],
      currentPlayer |-> H.objs[s].current_player,
      moveCount |-> H.objs[s].move_count,
      movesRemainingInTurn |-> H.objs[s].moves_remaining_in_turn,
      terminal |-> H.objs[s].game_over,
      returns |-> H.lists[H.objs[s].returns] ]

\* The value of every object of the heap.
Views(H) == [o \in DOMAIN H.objs |-> View(H, o)]

\* board.flatten(): row-major, as a sequence (index i holds cell i-1)
Flatten(g, board) ==
    Table([ i \in 1..(g.m * g.n) |-> board[<<(i - 1) \div g.n, (i - 1) % g.n>>] ])

\* legal_actions without its first line: the empty cells, finished or not
legal_actions_ignoring_end(H, g, s) ==
    LET flat == Flatten(g, H.arrays[H.objs[s].board])
    IN  SelectSeq([i \in 1..(g.m * g.n) |-> i - 1], LAMBDA a : flat[a + 1] = EMPTY)

\* MNKGameState.legal_actions
legal_actions(H, g, s) ==
    IF H.objs[s].game_over
    THEN <<>>
    ELSE LET flat == Flatten(g, H.arrays[H.objs[s].board])
         IN  SelectSeq([i \in 1..(g.m * g.n) |-> i - 1], LAMBDA a : flat[a + 1] = EMPTY)

\* _check_line walking the flattened board: a run may continue on the next row
check_line_wrapping(g, board, r, c, dr, dc, player, k) ==
    \A i \in 0..(k - 1) :
        LET idx == (r * g.n + c) + i * (dr * g.n + dc)
        IN  /\ 0 <= idx /\ idx < g.m * g.n
            /\ board[<<idx \div g.n, idx % g.n>>] = player

\* MNKGameState._check_line
check_line(g, board, r, c, dr, dc, player, k) ==
    \A i \in 0..(k - 1) :
        LET rr == r + i * dr
            cc == c + i * dc
        IN  /\ 0 <= rr /\ rr < g.m /\ 0 <= cc /\ cc < g.n
            /\ board[<<rr, cc>>] = player

\* _check_outcome looking only at lines that start in the first cell
check_outcome_from_first_cell(g, board, player) ==
    LET target_k == get_win_length(g, player)
        valid_dirs == get_valid_directions(g, player)
        is_misere == g.rules.misere
    IN  IF /\ board[<<0, 0>>] = player
           /\ \E d \in valid_dirs :
                 check_line(g, board, 0, 0, d[1], d[2], player, target_k)
        THEN (IF is_misere THEN -1 ELSE 1)
        ELSE NoOutcome

\* MNKGameState._check_outcome
check_outcome(g, board, player) ==
    LET target_k == get_win_length(g, player)
        valid_dirs == get_valid_directions(g, player)
        is_misere == g.rules.misere
    IN  IF \E cell \in Cells(g) :
              /\ board[cell] = player
              /\ \E d \in valid_dirs :
                    check_line(g, board, cell[1], cell[2], d[1], d[2], player, target_k)
        THEN (IF is_misere THEN -1 ELSE 1)
        ELSE NoOutcome

\* numpy indexing along an axis of length n: i is accepted from -n to n-1,
\* a negative i counting from the end; anything else raises IndexError
IndexInRange(i, n) == -n <= i /\ i < n
NumpyIndex(i, n) == IF i < 0 THEN i + n ELSE i

\* lines 50-52 with line 52 missing: the loser's entry is left as it was
WinReturns_mover_only(ret, player) == [ret EXCEPT ![player] = 1]

\* apply_action lines 50-52: the returns list after a win of `player`
WinReturns(ret, player) == [ret EXCEPT ![player] = 1, ![1 - player] = -1]

\* lines 53-55 scoring a misere line like a win
LossReturns_as_win(ret, player) == [ret EXCEPT ![player] = 1, ![1 - player] = -1]

\* apply_action lines 53-55: the returns list after a misere loss of `player`
LossReturns(ret, player) == [ret EXCEPT ![player] = -1, ![1 - player] = 1]

\* np.all(self._board != -1)
BoardFull_never(g, board) == FALSE
BoardFull(g, board) == \A cell \in Cells(g) : board[cell] # EMPTY

\* lines 36-37 missing: a finished game accepts the call
RefusesTerminal_never(self) == FALSE

\* apply_action lines 36-37: the call is refused on a finished game
RefusesTerminal(self) == self.game_over

\* lines 48-58 with the draw check ahead of the win check
OutcomeBranch_draw_first(g, board, outcome) ==
    IF BoardFull(g, board) THEN "draw"
    ELSE IF outcome # NoOutcome THEN "decisive"
    ELSE "open"

\* apply_action lines 48-58: which branch the outcome selects; the win check
\* comes first, the draw check is its elif
OutcomeBranch(g, board, outcome) ==
    IF outcome # NoOutcome THEN "decisive"
    ELSE IF BoardFull(g, board) THEN "draw"
    ELSE "open"

\* apply_action lines 39-62, once the call is accepted: place the stone, count
\* it, resolve the outcome, pass the turn
Place(H, g, s, row, col) ==
    LET self == H.objs[s]
        player == self.current_player
        cell == <<NumpyIndex(row, g.m), NumpyIndex(col, g.n)>>
        board1 == [H.arrays[self.board] EXCEPT ![cell] = player]
        move_count1 == self.move_count + 1
        remaining1 == self.moves_remaining_in_turn - 1
    IN
    LET Resolve(outcome, branch) ==
          LET game_over1 == branch # "open"
              \* a win mutates the returns list in place; a draw binds a new list
              lists1 ==
                  IF branch = "decisive" /\ outcome = 1
                  THEN [H.lists EXCEPT ![self.returns] = WinReturns(@, player)]
                  ELSE IF branch = "decisive" /\ outcome = -1
                  THEN [H.lists EXCEPT ![self.returns] = LossReturns(@, player)]
                  ELSE IF branch = "draw"
                  THEN Alloc(H.lists, Full(Players, 0))
                  ELSE H.lists
              returns1 == IF branch = "draw" THEN NewRef(H.lists) ELSE self.returns
              advance == ~game_over1 /\ remaining1 <= 0
              player1 == IF advance THEN 1 - player ELSE player
              remaining2 ==
                  IF advance THEN get_opening_moves(g, move_count1, player1) ELSE remaining1
          IN  [ arrays |-> [H.arrays EXCEPT ![self.board] = board1],
                lists |-> lists1,
                objs |-> [H.objs EXCEPT ![s] =
                            [ board |-> self.board,
                              returns |-> returns1,
                              current_player |-> player1,
                              game_over |-> game_over1,
                              move_count |-> move_count1,
                              moves_remaining_in_turn |-> remaining2 ]] ]
    IN  LET outcome == check_outcome(g, board1, player)
        IN  Resolve(outcome, OutcomeBranch(g, board1, outcome))

\* MNKGameState.apply_action on object s: the heap afterwards and the
\* exception raised ("none" when the call returns).  An exception leaves the
\* heap as it was: the board assignment is the first statement that writes.
apply_action(H, g, s, action) ==
    LET row == action \div g.n
        col == action % g.n
    IN  IF RefusesTerminal(H.objs[s])
        THEN [heap |-> H, exc |-> "RuntimeError"]
        ELSE IF ~(IndexInRange(row, g.m) /\ IndexInRange(col, g.n))
        THEN [heap |-> H, exc |-> "IndexError"]
        ELSE [heap |-> Place(H, g, s, row, col), exc |-> "none"]

\* clone() sharing the source's board and returns list instead of copying them
clone_sharing(H, g, s) ==
    [ arrays |-> H.arrays,
      lists  |-> H.lists,
      objs   |-> Alloc(H.objs, H.objs[s]) ]

\* MNKGameState.clone: a new object whose board is a copy of the source's
\* array and whose returns is a copy of the source's list, the other fields
\* assigned from the source.  (The board and the list that __init__ gave the
\* new object are dropped by the assignments and are not kept in the heap.)
clone(H, g, s) ==
    LET self == H.objs[s]
    IN  [ arrays |-> Alloc(H.arrays, H.arrays[self.board]),
          lists  |-> Alloc(H.lists, H.lists[self.returns]),
          objs   |-> Alloc(H.objs,
                       [ board |-> NewRef(H.arrays),
                         returns |-> NewRef(H.lists),
                         current_player |-> self.current_player,
                         game_over |-> self.game_over,
                         move_count |-> self.move_count,
                         moves_remaining_in_turn |-> self.moves_remaining_in_turn ]) ]

\* is_terminal / returns
is_terminal(H, s) == H.objs[s].game_over

----------------------------------------------------------------------------
(* Playing one game: the object under play is the first object of the heap. *)

Root == 1

\* game.new_initial_state()
InitGame ==
    /\ game \in Games
    /\ LET H == NewState(EmptyHeap, game)
       IN  /\ arrays = H.arrays
           /\ lists = H.lists
           /\ objs = H.objs
    /\ call = [op |-> "new_initial_state"]
    /\ movers = <<>>

\* no dataset is being built
NoExplorer ==
    /\ phase = "idle"
    /\ max_depth = <<>>
    /\ stack = <<>>
    /\ visited = <<>>
    /\ ds = <<>>

\* build_sampler has not been called
NoSampler ==
    /\ viewHeap = <<>>
    /\ sampler = [view |-> 0, status |-> "idle"]

Init == InitGame /\ NoExplorer /\ NoSampler

\* state.apply_action(action) on object s, recorded in `call`
Call(s, action) ==
    \E res \in {apply_action(Heap, game, s, action)} :
        /\ arrays' = res.heap.arrays
        /\ lists' = res.heap.lists
        /\ objs' = res.heap.objs
        /\ call' = [ op |-> "apply_action", obj |-> s, action |-> action,
                     before |-> Views(Heap), exc |-> res.exc ]
        /\ movers' = IF res.exc = "none" /\ s = Root
                     THEN Append(movers, objs[s].current_player)
                     ELSE movers
        /\ UNCHANGED <<game, explorerVars, samplerVars>>

\* the cell an action index names, for an index in range
CellOf(g, a) == <<a \div g.n, a % g.n>>

EmptyCells(g, board) == { a \in 0..(g.m * g.n - 1) : board[CellOf(g, a)] = EMPTY }

SeqSet(q) == { q[i] : i \in DOMAIN q }

\* a caller that plays one of legal_actions()
Play ==
    \E a \in SeqSet(legal_actions(Heap, game, Root)) : Call(Root, a)

\* a caller that tries to go on after the game has ended, with a cell that is
\* still empty or with an index just outside the board; a caller whose call
\* raised does not retry (the state is the one it tried on)
PlayAfterEnd ==
    /\ is_terminal(Heap, Root)
    /\ call.op = "apply_action" => call.exc = "none"
    /\ \E a \in EmptyCells(game, arrays[objs[Root].board]) \cup {-1, game.m * game.n} :
          Call(Root, a)

Next == Play \/ PlayAfterEnd

Spec == Init /\ [][Next]_vars

----------------------------------------------------------------------------
(* A caller that passes any integer as the action, legal or not. *)

\* The integers such a caller passes: every index of the board, every
\* negative index numpy accepts, and one index beyond each end.
ActionInputs == (0 - game.m * game.n - 1)..(game.m * game.n)

CallAny ==
    \E a \in ActionInputs :
        /\ Len(movers) < MaxCalls
        /\ call.op = "apply_action" => call.exc = "none"
        /\ Call(Root, a)

NextAny == CallAny

SpecAny == Init /\ [][NextAny]_vars

----------------------------------------------------------------------------
(* A caller that clones the state under play once, at any point of the     *)
(* game, and then plays on the original and on the clone in any order.     *)

TheClone == 2

\* games with one opening move per player and the base win length
InitClone ==
    /\ Init
    /\ game.m * game.n <= MaxCloneCells
    /\ game.rules.opening_moves = <<>>
    /\ game.rules.extra_k = <<>>

\* clone = state.clone()
CloneRoot ==
    /\ DOMAIN objs = {Root}
    /\ call.op = "apply_action" => call.exc = "none"
    /\ \E H \in {clone(Heap, game, Root)} :
          /\ arrays' = H.arrays
          /\ lists' = H.lists
          /\ objs' = H.objs
    /\ call' = [ op |-> "clone", obj |-> Root, before |-> Views(Heap), exc |-> "none" ]
    /\ UNCHANGED <<game, movers, explorerVars, samplerVars>>

\* a legal action on the original or on the clone
PlayEither ==
    \E s \in DOMAIN objs :
        \E a \in SeqSet(legal_actions(Heap, game, s)) : Call(s, a)

NextClone == CloneRoot \/ PlayEither

SpecClone == InitClone /\ [][NextClone]_vars

----------------------------------------------------------------------------
(* state_dataset/dataset.py: the features of a state *)

\* pyspiel.PlayerId.TERMINAL
TERMINAL == -4

\* MNKGameState.current_player
current_player(H, s) ==
    IF H.objs[s].game_over THEN TERMINAL ELSE H.objs[s].current_player

\* MNKGameState.observation_tensor: three planes of rows x cols, flattened;
\* plane 0 marks the cells of player 0, plane 1 those of player 1, plane 2
\* stays zero
observation_tensor(g, board) ==
    Table([ i \in 1..(3 * g.m * g.n) |->
        LET plane == (i - 1) \div (g.m * g.n)
            r == ((i - 1) % (g.m * g.n)) \div g.n
            c == (i - 1) % g.n
        IN  IF plane = 0 /\ board[<<r, c>>] = 0 THEN 1
            ELSE IF plane = 1 /\ board[<<r, c>>] = 1 THEN 1
            ELSE 0 ])

\* extract_board: the tensor reshaped to (3, rows, cols), plane 0 minus plane 1
extract_board(H, g, s) ==
    LET flat == observation_tensor(g, H.arrays[H.objs[s].board])
        obs(plane, r, c) == flat[plane * g.m * g.n + r * g.n + c + 1]
    IN  Table([ cell \in Cells(g) |-> obs(0, cell[1], cell[2]) - obs(1, cell[1], cell[2]) ])

\* longest_chain lines 53-57: the while loop that walks one direction
RECURSIVE WalkChain(_, _, _, _, _, _, _, _)
WalkChain(g, board, rr, cc, dr, dc, player_val, length) ==
    IF 0 <= rr /\ rr < g.m /\ 0 <= cc /\ cc < g.n /\ board[<<rr, cc>>] = player_val
    THEN WalkChain(g, board, rr + dr, cc + dc, dr, dc, player_val, length + 1)
    ELSE length

SetMax(S) == IF S = {} THEN 0 ELSE CHOOSE x \in S : \A y \in S : y <= x

\* longest_chain
longest_chain(H, g, s, player_val) ==
    LET board == extract_board(H, g, s)
        current_p_id == current_player(H, s)
        target_p_id == IF player_val = 1 THEN current_p_id ELSE 1 - current_p_id
        directions == get_valid_directions(g, target_p_id)
    IN  SetMax({ WalkChain(g, board, cell[1] + d[1], cell[2] + d[2], d[1], d[2], player_val, 1) :
                   cell \in { x \in Cells(g) : board[x] = player_val }, d \in directions })

\* the symbols with "X" for either player's stone
Char_one_symbol(v) == IF v = EMPTY THEN "." ELSE "X"

\* MNKGameState.__str__: the rows as characters, joined by newlines
Char(v) == CASE v = EMPTY -> "." [] v = 0 -> "X" [] v = 1 -> "O"

\* a rendering of the first row only
str_state_first_row(H, g, s) ==
    LET board == H.arrays[H.objs[s].board]
    IN  Table([ i \in 1..g.n |-> Char(board[<<0, i - 1>>]) ])

str_state(H, g, s) ==
    LET board == H.arrays[H.objs[s].board]
    IN  Table([ i \in 1..(g.m * g.n + g.m - 1) |->
            IF (i - 1) % (g.n + 1) = g.n
            THEN "\n"
            ELSE Char(board[<<(i - 1) \div (g.n + 1), (i - 1) % (g.n + 1)>>]) ])

----------------------------------------------------------------------------
(* state_dataset/dataset.py: generate_all_states, one frame per call *)

\* an object goes away with its last reference, and its board and returns
\* list with it unless another object holds them
Restrict(f, D) == [x \in D |-> f[x]]

Free(H, s) ==
    LET rest == DOMAIN H.objs \ {s}
    IN  [ arrays |-> Restrict(H.arrays,
                       { r \in DOMAIN H.arrays :
                           r = H.objs[s].board => \E o \in rest : H.objs[o].board = r }),
          lists  |-> Restrict(H.lists,
                       { r \in DOMAIN H.lists :
                           r = H.objs[s].returns => \E o \in rest : H.objs[o].returns = r }),
          objs   |-> Restrict(H.objs, rest) ]

\* the values of max_depth_limit: None, or a number of plies
DepthLimits == {<<>>} \cup { <<d>> : d \in 0..MaxDepthLimit }

\* GameStateDataset.__init__ at its call of generate_all_states on
\* game.new_initial_state() with an empty visited dict
InitExplore ==
    /\ InitGame
    /\ game.m * game.n <= MaxExploreCells
    /\ phase = "running"
    /\ max_depth \in DepthLimits
    /\ stack = << [state |-> Root, num_turns |-> 0, pc |-> "enter", todo |-> <<>>] >>
    /\ visited = <<>>
    /\ ds = <<>>
    /\ NoSampler

Top == stack[Len(stack)]

\* line 68 with the terminal test missing: only a visited key stops the call
SeenOrTerminal_seen_only(H, g, s, vis) == str_state(H, g, s) \in DOMAIN vis

\* line 68 with the visited test missing: only a terminal state stops the call
SeenOrTerminal_terminal_only(H, g, s, vis) == is_terminal(H, s)

\* line 68: key in visited or state.is_terminal()
SeenOrTerminal(H, g, s, vis) ==
    str_state(H, g, s) \in DOMAIN vis \/ is_terminal(H, s)

\* line 71 with >= for >: the states at ply max_depth are cut off as well
BeyondDepth_at_limit(md, num_turns) == md # <<>> /\ num_turns >= md[1]

\* line 71: max_depth is not None and num_turns > max_depth
BeyondDepth(md, num_turns) == md # <<>> /\ num_turns > md[1]

\* lines 75-88 with the size of the board for 'freespace'
MakeInfo_all_cells_free(H, g, s, ref, num_turns) ==
    LET len_chain_me == longest_chain(H, g, s, 1)
        len_chain_opp == longest_chain(H, g, s, -1)
    IN  [ state |-> ref,
          longest_chain_me |-> len_chain_me,
          longest_chain_opp |-> len_chain_opp,
          freespace |-> g.m * g.n,
          winning |-> len_chain_me > len_chain_opp,
          tied |-> len_chain_me = len_chain_opp,
          losing |-> len_chain_me < len_chain_opp,
          current_player |-> current_player(H, s),
          num_turns |-> num_turns ]

\* lines 75-88: the info dict of state s, whose 'state' is the clone at ref
MakeInfo(H, g, s, ref, num_turns) ==
    LET len_chain_me == longest_chain(H, g, s, 1)
        len_chain_opp == longest_chain(H, g, s, -1)
    IN  [ state |-> ref,
          longest_chain_me |-> len_chain_me,
          longest_chain_opp |-> len_chain_opp,
          freespace |-> Len(legal_actions(H, g, s)),
          winning |-> len_chain_me > len_chain_opp,
          tied |-> len_chain_me = len_chain_opp,
          losing |-> len_chain_me < len_chain_opp,
          current_player |-> current_player(H, s),
          num_turns |-> num_turns ]

SetHeap(H) ==
    /\ arrays' = H.arrays
    /\ lists' = H.lists
    /\ objs' = H.objs

\* a call returns: its frame goes, and with it the state it was given
PopFrame ==
    /\ stack' = SubSeq(stack, 1, Len(stack) - 1)
    /\ SetHeap(Free(Heap, Top.state))
    /\ phase' = IF Len(stack) = 1 THEN "done" ELSE "running"

\* lines 67-72: the call returns at once
ReturnEarly ==
    /\ phase = "running"
    /\ Top.pc = "enter"
    /\ \/ SeenOrTerminal(Heap, game, Top.state, visited)
       \/ BeyondDepth(max_depth, Top.num_turns)
    /\ PopFrame
    /\ UNCHANGED <<game, call, movers, max_depth, visited, ds, samplerVars>>

\* lines 74-97: the state is new; record it and start the loop over its
\* legal actions
Visit ==
    /\ phase = "running"
    /\ Top.pc = "enter"
    /\ ~SeenOrTerminal(Heap, game, Top.state, visited)
    /\ ~BeyondDepth(max_depth, Top.num_turns)
    /\ SetHeap(clone(Heap, game, Top.state))
    /\ ds' = Append(ds, MakeInfo(Heap, game, Top.state, NewRef(objs), Top.num_turns))
    /\ visited' = (str_state(Heap, game, Top.state) :> (Len(ds) + 1)) @@ visited
    /\ stack' = [stack EXCEPT ![Len(stack)] =
                   [@ EXCEPT !.pc = "loop", !.todo = legal_actions(Heap, game, Top.state)]]
    /\ UNCHANGED <<game, call, movers, max_depth, phase, samplerVars>>

\* lines 97-100: the next legal action: clone, apply, recurse.  An exception
\* of apply_action is caught nowhere and ends the run.
Expand ==
    /\ phase = "running"
    /\ Top.pc = "loop"
    /\ Top.todo # <<>>
    /\ \E H1 \in {clone(Heap, game, Top.state)} :
       \E res \in {apply_action(H1, game, NewRef(objs), Head(Top.todo))} :
          /\ SetHeap(res.heap)
          /\ IF res.exc = "none"
             THEN /\ stack' = Append([stack EXCEPT ![Len(stack)].todo = Tail(@)],
                                     [ state |-> NewRef(objs),
                                       num_turns |-> Top.num_turns + 1,
                                       pc |-> "enter",
                                       todo |-> <<>> ])
                  /\ phase' = phase
             ELSE /\ stack' = <<>>
                  /\ phase' = "raised"
    /\ UNCHANGED <<game, call, movers, max_depth, visited, ds, samplerVars>>

\* line 97: the loop is over and the call returns
Return ==
    /\ phase = "running"
    /\ Top.pc = "loop"
    /\ Top.todo = <<>>
    /\ PopFrame
    /\ UNCHANGED <<game, call, movers, max_depth, visited, ds, samplerVars>>

NextExplore == ReturnEarly \/ Visit \/ Expand \/ Return

SpecExplore == InitExplore /\ [][NextExplore]_vars

\* GameStateDataset(game) with no depth limit, on a game with the default
\* directions and win lengths
InitUnlimited ==
    /\ InitExplore
    /\ max_depth = <<>>
    /\ game.rules.allowed_directions = <<>>
    /\ game.rules.extra_k = <<>>

\* the interpreter goes on running the call it is in until it returns
SpecExploreFair == InitUnlimited /\ [][NextExplore]_vars /\ WF_vars(NextExplore)

----------------------------------------------------------------------------
(* state_dataset/dataset.py: GameStateDataset(game, max_depth_limit) as one
   step, generate_all_states as the recursive function it is.  The states a
   call has finished with stay in the heap until the constructor returns. *)

\* mnk_game.py:124  def __init__(self, m=3, n=3, k=3, rules=None)
DefaultM == 3
DefaultN == 3
DefaultK == 3

\* rules=None: no key is configured
NoRules ==
    [opening_moves |-> <<>>, misere |-> FALSE, allowed_directions |-> <<>>, extra_k |-> <<>>]

\* MNKGame()
DefaultGame == [m |-> DefaultM, n |-> DefaultN, base_k |-> DefaultK, rules |-> NoRules]

\* line 97, `for action in state.legal_actions()`, taking the legal actions
\* in the order of the sequence `order` of all the actions; the code's order
\* is the ascending one
Enumerate(H, g, s, order) ==
    LET legal == SeqSet(legal_actions(H, g, s))
    IN  SelectSeq(order, LAMBDA a : a \in legal)

Ascending(g) == [i \in 1..(g.m * g.n) |-> i - 1]

RECURSIVE generate_all_states(_, _, _, _, _, _)
RECURSIVE ExploreActions(_, _, _, _, _, _, _)

\* lines 67-100.  acc holds the heap, the visited dict, the dataset's items
\* and the exception that ended the run ("none" while it goes on).
generate_all_states(g, md, order, acc, state, num_turns) ==
    IF SeenOrTerminal(acc.heap, g, state, acc.visited) \/ BeyondDepth(md, num_turns)
    THEN acc
    ELSE LET info == MakeInfo(acc.heap, g, state, NewRef(acc.heap.objs), num_turns)
             recorded ==
                 [ heap |-> clone(acc.heap, g, state),
                   visited |-> (str_state(acc.heap, g, state) :> (Len(acc.ds) + 1)) @@ acc.visited,
                   ds |-> Append(acc.ds, info),
                   exc |-> "none" ]
         IN  ExploreActions(g, md, order, recorded, state, num_turns,
                            Enumerate(acc.heap, g, state, order))

\* lines 97-100: the loop over the actions still to take
ExploreActions(g, md, order, acc, state, num_turns, todo) ==
    IF todo = <<>>
    THEN acc
    ELSE LET new_state == NewRef(acc.heap.objs)
             res == apply_action(clone(acc.heap, g, state), g, new_state, Head(todo))
         IN  IF res.exc # "none"
             THEN [acc EXCEPT !.exc = res.exc]
             ELSE LET sub == generate_all_states(g, md, order, [acc EXCEPT !.heap = res.heap],
                                                 new_state, num_turns + 1)
                  IN  IF sub.exc # "none"
                      THEN sub
                      ELSE ExploreActions(g, md, order, sub, state, num_turns, Tail(todo))

\* GameStateDataset.__init__, lines 104-116: generate_all_states on game g's
\* initial state, with depth limit md and an empty visited dict, the actions
\* taken in the given order
Exploration(g, md, order) ==
    generate_all_states(g, md, order,
        [heap |-> NewState(EmptyHeap, g), visited |-> <<>>, ds |-> <<>>, exc |-> "none"],
        Root, 0)

\* what the constructor leaves: the objects the caller's state and the
\* dataset's items refer to
Collect(H, live) ==
    [ arrays |-> Restrict(H.arrays, { H.objs[o].board : o \in live }),
      lists  |-> Restrict(H.lists, { H.objs[o].returns : o \in live }),
      objs   |-> Restrict(H.objs, live) ]

\* the largest board whose dataset is built under every order of the actions
MaxOrderCells == 3

\* the games a dataset is built of: the small games that differ in size, win
\* length and directions, and the default game
DatasetGames ==
    { g \in Games :
        /\ g.m * g.n <= MaxExploreCells
        /\ g.rules.opening_moves = <<>>
        /\ g.rules.extra_k = <<>>
        /\ ~g.rules.misere }
        \cup {DefaultGame}

Orders(g) ==
    IF g.m * g.n <= MaxOrderCells
    THEN { q \in [1..(g.m * g.n) -> 0..(g.m * g.n - 1)] : SeqSet(q) = 0..(g.m * g.n - 1) }
    ELSE {Ascending(g)}

\* before GameStateDataset(game, max_depth) is called
InitDataset ==
    /\ game \in DatasetGames
    /\ arrays = <<>>
    /\ lists = <<>>
    /\ objs = <<>>
    /\ call = [op |-> "none"]
    /\ movers = <<>>
    /\ phase = "idle"
    /\ max_depth \in DepthLimits
    /\ stack = <<>>
    /\ visited = <<>>
    /\ ds = <<>>
    /\ NoSampler

\* GameStateDataset.__init__: game.new_initial_state(), then
\* generate_all_states on it with an empty visited dict
BuildDataset ==
    /\ phase = "idle"
    /\ \E order \in Orders(game) :
       \E res \in {Exploration(game, max_depth, order)} :
          /\ SetHeap(Collect(res.heap, { res.ds[i].state : i \in DOMAIN res.ds }))
          /\ visited' = res.visited
          /\ ds' = res.ds
          /\ phase' = IF res.exc = "none" THEN "done" ELSE "raised"
          /\ call' = [op |-> "GameStateDataset", order |-> order]
    /\ UNCHANGED <<game, movers, max_depth, stack, samplerVars>>

NextDataset == BuildDataset

SpecDataset == InitDataset /\ [][NextDataset]_vars

----------------------------------------------------------------------------
(* A caller that constructs a game from arguments of its choice, asks it   *)
(* for the initial state and plays legal actions on it.                    *)

\* largest number of cells of a board such a caller asks for
MaxConstructCells == 4

\* the p{i}_extra_k entries such a caller passes: absent, or a bonus or a
\* malus for one player
ExtraKArgs == ExtraKMaps \cup { [p \in {0} |-> -1], [p \in {1} |-> -1] }

\* the arguments of MNKGame(m, n, k, rules): any k from 0 to one beyond the
\* largest side; __init__ tests none of them before the size check
ConstructorArgs ==
    { g \in [m : 1..MaxDim, n : 1..MaxDim, base_k : 0..(MaxDim + 1),
             rules : [opening_moves : {<<>>}, misere : BOOLEAN,
                      allowed_directions : {<<>>}, extra_k : ExtraKArgs]] :
        g.m * g.n <= MaxConstructCells }

\* before MNKGame(...) is called; `game` holds the arguments
InitConstruct ==
    /\ game \in ConstructorArgs
    /\ arrays = <<>>
    /\ lists = <<>>
    /\ objs = <<>>
    /\ call = [op |-> "none"]
    /\ movers = <<>>
    /\ NoExplorer
    /\ NoSampler

\* MNKGame.__init__
Construct ==
    /\ call.op = "none"
    /\ call' = [ op |-> "MNKGame",
                 exc |-> IF ConstructorRaises(game) THEN "ValueError" ELSE "none" ]
    /\ UNCHANGED <<game, arrays, lists, objs, movers, explorerVars, samplerVars>>

\* game.new_initial_state() on a game whose constructor returned
NewInitialState ==
    /\ call.op = "MNKGame"
    /\ call.exc = "none"
    /\ SetHeap(NewState(EmptyHeap, game))
    /\ call' = [op |-> "new_initial_state"]
    /\ UNCHANGED <<game, movers, explorerVars, samplerVars>>

\* a legal action on the state, once there is one
PlayConstructed ==
    /\ Root \in DOMAIN objs
    /\ Play

NextConstruct == Construct \/ NewInitialState \/ PlayConstructed

SpecConstruct == InitConstruct /\ [][NextConstruct]_vars

----------------------------------------------------------------------------
(* Views over records: GameStateView, and the loop of build_sampler that   *)
(* narrows a view by each configured predicate.                            *)

MaxViewLen == 2
MaxViews == 2

\* the values a record holds and a keyword argument asks for, by their repr
PyValues == {"None", "1"}

\* the field names records and keyword arguments use
Fields == {"winning", "num_turns"}

\* dicts over Fields; a field may be absent
Dicts == UNION { [D -> PyValues] : D \in SUBSET Fields }

\* what a view may hold: a dict, or an object that is no dict
Items == { [type |-> "dict", value |-> d] : d \in Dicts } \cup { [type |-> "int", value |-> <<>>] }

\* lists of at most MaxViewLen items
ItemLists == UNION { [1..len -> Items] : len \in 0..MaxViewLen }

\* all(x.get(k) == v for k, v in kwargs.items()): "true", "false", or the
\* exception x.get raises; with no kwargs the generator never touches x
Matches_get_first(x, kwargs) ==
    IF x.type # "dict" THEN "AttributeError"
    ELSE IF \A k \in DOMAIN kwargs : DictGet(x.value, k, "None") = kwargs[k] THEN "true"
    ELSE "false"
Matches(x, kwargs) ==
    IF DOMAIN kwargs = {} THEN "true"
    ELSE IF x.type # "dict" THEN "AttributeError"
    ELSE IF \A k \in DOMAIN kwargs : DictGet(x.value, k, "None") = kwargs[k] THEN "true"
    ELSE "false"

\* GameStateView.filter(**kwargs): the items of the view it returns; an item
\* whose test raises is skipped
filter(items, kwargs) == SelectSeq(items, LAMBDA x : Matches(x, kwargs) = "true")

\* the predicates a sampler configuration names
Predicates == { "lambda x: x['winning']",
                "lambda x: x['num_turns'] > 0",
                "lambda x: 'num_turns' in x" }

\* fn(x): "true", "false", or the exception the predicate raises
Apply(fn, x) ==
    IF x.type # "dict" THEN "TypeError"
    ELSE IF fn = "lambda x: x['winning']"
    THEN IF "winning" \notin DOMAIN x.value THEN "KeyError"
         ELSE IF x.value["winning"] = "None" THEN "false" ELSE "true"
    ELSE IF fn = "lambda x: x['num_turns'] > 0"
    THEN IF "num_turns" \notin DOMAIN x.value THEN "KeyError"
         ELSE IF x.value["num_turns"] = "None" THEN "TypeError" ELSE "true"
    ELSE IF "num_turns" \in DOMAIN x.value THEN "true" ELSE "false"

\* GameStateView.where(fn): the list comprehension stops at the first item
\* on which fn raises
where(items, fn) ==
    LET faults == { i \in DOMAIN items : Apply(fn, items[i]) \notin {"true", "false"} }
    IN  IF faults = {}
        THEN [ exc |-> "none", items |-> SelectSeq(items, LAMBDA x : Apply(fn, x) = "true") ]
        ELSE [ exc |-> Apply(fn, items[CHOOSE i \in faults : \A j \in faults : i <= j]),
               items |-> <<>> ]

\* a view over some records, which the loop of build_sampler (of main.py or
\* of utils/utils.py) is about to narrow
InitView ==
    /\ game = DefaultGame
    /\ arrays = <<>>
    /\ lists = <<>>
    /\ objs = <<>>
    /\ call = [op |-> "GameStateView"]
    /\ movers = <<>>
    /\ NoExplorer
    /\ \E items \in ItemLists : viewHeap = <<items>>
    /\ \E module \in {"main", "utils"} :
          sampler = [view |-> 1, status |-> "running", module |-> module]

\* view v's filter(**kwargs), called from outside the sampler
Filter(v, kwargs) ==
    /\ Len(viewHeap) < MaxViews
    /\ viewHeap' = Alloc(viewHeap, filter(viewHeap[v], kwargs))
    /\ call' = [ op |-> "filter", obj |-> v, kwargs |-> kwargs, before |-> viewHeap,
                 result |-> NewRef(viewHeap), exc |-> "none" ]
    /\ UNCHANGED <<game, arrays, lists, objs, movers, explorerVars, sampler>>

\* one turn of the loop of build_sampler in utils/utils.py:
\* view = view.where(fn)
NarrowUtils(fn) ==
    /\ sampler.module = "utils"
    /\ sampler.status = "running"
    /\ Len(viewHeap) < MaxViews
    /\ \E res \in {where(viewHeap[sampler.view], fn)} :
          /\ viewHeap' = IF res.exc = "none" THEN Alloc(viewHeap, res.items) ELSE viewHeap
          /\ sampler' = IF res.exc = "none"
                        THEN [sampler EXCEPT !.view = NewRef(viewHeap)]
                        ELSE [sampler EXCEPT !.status = "raised"]
          /\ call' = [ op |-> "build_sampler", fn |-> fn, obj |-> sampler.view,
                       before |-> viewHeap, fault |-> res.exc, exc |-> res.exc ]
    /\ UNCHANGED <<game, arrays, lists, objs, movers, explorerVars>>

\* one turn of the loop of build_sampler in main.py:
\* try: view = view.where(fn)  except Exception: print a warning
NarrowMain(fn) ==
    /\ sampler.module = "main"
    /\ sampler.status = "running"
    /\ Len(viewHeap) < MaxViews
    /\ \E res \in {where(viewHeap[sampler.view], fn)} :
          /\ viewHeap' = IF res.exc = "none" THEN Alloc(viewHeap, res.items) ELSE viewHeap
          /\ sampler' = IF res.exc = "none"
                        THEN [sampler EXCEPT !.view = NewRef(viewHeap)]
                        ELSE sampler
          /\ call' = [ op |-> "build_sampler", fn |-> fn, obj |-> sampler.view,
                       before |-> viewHeap, fault |-> res.exc, exc |-> "none" ]
    /\ UNCHANGED <<game, arrays, lists, objs, movers, explorerVars>>

NextView ==
    \/ \E v \in DOMAIN viewHeap : \E kwargs \in Dicts : Filter(v, kwargs)
    \/ \E fn \in Predicates : NarrowUtils(fn)
    \/ \E fn \in Predicates : NarrowMain(fn)

SpecView == InitView /\ [][NextView]_vars

\* the numbers of samples a caller asks for
SampleSizes == (-1)..(MaxViewLen + 1)

\* the lists of len positions of a list of n items
Picks(n, len) == [1..len -> 1..n]

Distinct(q) == \A i, j \in DOMAIN q : i # j => q[i] # q[j]

\* GameStateView.sample(k, replace): the lists of positions random may draw.
\* random.choices draws nothing for a negative k; random.sample raises
\* ValueError for one, which the except clause turns into [].
sample_no_fallback(items, k, replace) ==
    LET n == Len(items)
    IN  IF n = 0 THEN {<<>>}
        ELSE IF replace THEN (IF k < 0 THEN {<<>>} ELSE Picks(n, k))
        ELSE IF k < 0 \/ k > n THEN {<<>>}
        ELSE { q \in Picks(n, k) : Distinct(q) }
sample(items, k, replace) ==
    LET n == Len(items)
    IN  IF n = 0 THEN {<<>>}
        ELSE IF ~replace /\ k > n THEN { q \in Picks(n, n) : Distinct(q) }
        ELSE IF replace THEN (IF k < 0 THEN {<<>>} ELSE Picks(n, k))
        ELSE IF k < 0 THEN {<<>>}
        ELSE { q \in Picks(n, k) : Distinct(q) }

\* view v's sample(k, replace), the first call made on the view; sample
\* assigns nothing, so a later call starts from the same state
Sample(v, k, replace) ==
    /\ call.op = "GameStateView"
    /\ \E q \in sample(viewHeap[v], k, replace) :
          call' = [ op |-> "sample", obj |-> v, k |-> k, replace |-> replace,
                    before |-> viewHeap, picks |-> q,
                    result |-> [i \in DOMAIN q |-> viewHeap[v][q[i]]], exc |-> "none" ]
    /\ UNCHANGED <<game, arrays, lists, objs, movers, explorerVars, samplerVars>>

NextSample ==
    \E v \in DOMAIN viewHeap : \E k \in SampleSizes : \E replace \in BOOLEAN :
        Sample(v, k, replace)

SpecSample == InitView /\ [][NextSample]_vars

----------------------------------------------------------------------------
(* What the claims speak of. *)

\* the object under play, by value
Cur == View(Heap, Root)

\* the last call was an apply_action on the object under play
Applied == call.op = "apply_action" /\ call.obj = Root

\* the value of the object under play before the last call
Pre == call.before[Root]

\* the last call placed a stone: it was an apply_action that returned
Placed == Applied /\ call.exc = "none"

\* the player who made the last call
Mover == Pre.currentPlayer

InRange(g, a) == 0 <= a /\ a < g.m * g.n

\* the last call was a legal action on a non-terminal state
PlacedLegally ==
    /\ Placed
    /\ ~Pre.terminal
    /\ InRange(game, call.action)
    /\ Pre.board[CellOf(game, call.action)] = EMPTY

\* Player p owns a run of winLength[p] consecutive cells along one of its
\* allowed directions, every cell of the run a cell of the board.
HasRun(g, board, p) ==
    LET steps == 0..(get_win_length(g, p) - 1)
        owned == { cell \in Cells(g) : board[cell] = p }
    IN  \E d \in get_valid_directions(g, p) : \E start \in owned :
            \A i \in steps : <<start[1] + i * d[1], start[2] + i * d[2]>> \in owned

Pair(a, b) == [p \in Players |-> IF p = 0 THEN a ELSE b]

\* C1: a legal action on a non-terminal state leaves the state terminal with
\* a non-zero result exactly when the mover then owns a run of its win length
\* along one of its directions, inside the board.
C1_WinIffRun ==
    PlacedLegally =>
        ((Cur.terminal /\ Cur.returns # Pair(0, 0)) <=> HasRun(game, Cur.board, Mover))

\* a placement that won while cells were still empty
C1_Witness ==
    /\ PlacedLegally
    /\ Cur.terminal /\ Cur.returns # Pair(0, 0)
    /\ HasRun(game, Cur.board, Mover)
    /\ EmptyCells(game, Cur.board) # {}
    /\ get_win_length(game, Mover) >= 2

\* C2: returns is [0,0] in a non-terminal state and in a draw, and [1,-1] or
\* [-1,1] in every other state.
C2_ReturnsShape ==
    LET decided == \E p \in Players : HasRun(game, Cur.board, p)
    IN  IF ~Cur.terminal \/ ~decided
        THEN Cur.returns = Pair(0, 0)
        ELSE Cur.returns \in {Pair(1, -1), Pair(-1, 1)}

\* a finished game the second player won
C2_Witness ==
    /\ Cur.terminal
    /\ Cur.returns = Pair(-1, 1)
    /\ HasRun(game, Cur.board, 1)

\* C3: a placement that completes a line gives the mover +1 and the other
\* player -1 under normal rules, and the mover -1 and the other +1 under misere.
C3_MoverScore ==
    (PlacedLegally /\ HasRun(game, Cur.board, Mover)) =>
        /\ Cur.returns[Mover] = (IF game.rules.misere THEN -1 ELSE 1)
        /\ Cur.returns[1 - Mover] = (IF game.rules.misere THEN 1 ELSE -1)

\* the second player completes a line under misere with the first stone of a
\* two-move opening turn
C3_Witness ==
    /\ PlacedLegally
    /\ HasRun(game, Cur.board, Mover)
    /\ Mover = 1
    /\ game.rules.misere
    /\ Pre.movesRemainingInTurn = 2

\* C4, as stated: in every state legal_actions() is the set of empty cells,
\* and it is empty exactly when the state is terminal.
C4_AsStated ==
    LET legal == SeqSet(legal_actions(Heap, game, Root))
    IN  /\ legal = EmptyCells(game, Cur.board)
        /\ (legal = {}) <=> Cur.terminal

\* C4, amended: in a non-terminal state legal_actions() is the set of empty
\* cells and is not empty; in a terminal state it is empty, whatever cells
\* are left.
C4_LegalActions ==
    LET legal == SeqSet(legal_actions(Heap, game, Root))
    IN  /\ ~Cur.terminal => (legal = EmptyCells(game, Cur.board) /\ legal # {})
        /\ Cur.terminal => legal = {}

\* a game won with cells left over
C4_Witness ==
    /\ Cur.terminal
    /\ EmptyCells(game, Cur.board) # {}
    /\ legal_actions(Heap, game, Root) = <<>>

\* C5: an apply_action on a terminal state raises and leaves every field as
\* it was, so a terminal state stays terminal.
C5_TerminalRefuses ==
    (Applied /\ Pre.terminal) =>
        /\ call.exc = "RuntimeError"
        /\ Cur = Pre
        /\ Cur.terminal

\* an attempt to play an empty cell of a finished game
C5_Witness ==
    /\ Applied /\ Pre.terminal
    /\ InRange(game, call.action)
    /\ Pre.board[CellOf(game, call.action)] = EMPTY
    /\ call.exc = "RuntimeError"

\* C7: a placement that fills the board and completes a line is decisive, and
\* a draw is a full board on which the mover has no line.
C7_WinBeforeDraw ==
    PlacedLegally =>
        /\ (BoardFull(game, Cur.board) /\ HasRun(game, Cur.board, Mover)) =>
              (Cur.terminal /\ Cur.returns \in {Pair(1, -1), Pair(-1, 1)})
        /\ (Cur.terminal /\ Cur.returns = Pair(0, 0)) =>
              (BoardFull(game, Cur.board) /\ ~HasRun(game, Cur.board, Mover))

\* the last empty cell completes a line of at least two cells
C7_Witness ==
    /\ PlacedLegally
    /\ BoardFull(game, Cur.board)
    /\ HasRun(game, Cur.board, Mover)
    /\ get_win_length(game, Mover) >= 2
    /\ Cur.returns[Mover] = 1

\* the opening-move count configured for a player (1 when not configured)
OpeningMoves(p) == DictGet(game.rules.opening_moves, p, 1)

\* the player of the i-th placement when each player's first turn has its
\* configured number of placements and every later turn has one
ScheduledMover(i) ==
    IF i <= OpeningMoves(0) THEN 0
    ELSE IF i <= OpeningMoves(0) + OpeningMoves(1) THEN 1
    ELSE (i - OpeningMoves(0) - OpeningMoves(1) - 1) % 2

\* C8: each player's first turn is openingMoves[player] consecutive
\* placements, every later turn is one placement.
C8_OpeningTurns == \A i \in DOMAIN movers : movers[i] = ScheduledMover(i)

\* C6: an action index outside [0, rows*cols) applied to a non-terminal
\* state raises and leaves every field of the state as it was.
C6_OutOfRangeRefused ==
    (Applied /\ ~Pre.terminal /\ ~InRange(game, call.action)) =>
        (call.exc # "none" /\ Cur = Pre)

\* C9: clone() yields a state equal to the original in every field, and
\* afterwards no apply_action on one of the two states changes a field of
\* the other.
C9_CloneIndependent ==
    /\ call.op = "clone" =>
          /\ View(Heap, TheClone) = View(Heap, Root)
          /\ View(Heap, Root) = call.before[Root]
    /\ (call.op = "apply_action" /\ DOMAIN objs = {Root, TheClone}) =>
          View(Heap, 3 - call.obj) = call.before[3 - call.obj]

\* the original and the clone have each been played on, the last placement
\* ended one game, and the two boards differ
C9_Witness ==
    /\ DOMAIN objs = {Root, TheClone}
    /\ call.op = "apply_action" /\ call.exc = "none"
    /\ View(Heap, call.obj).terminal
    /\ ~View(Heap, 3 - call.obj).terminal
    /\ View(Heap, Root).moveCount > View(Heap, TheClone).moveCount
    /\ View(Heap, TheClone).board # call.before[Root].board
    /\ \E c \in Cells(game) : View(Heap, TheClone).board[c] \notin {EMPTY, View(Heap, Root).board[c]}

\* a one-object heap holding the state value v
HeapOf(v) ==
    [ arrays |-> <<v.board>>,
      lists |-> <<v.returns>>,
      objs |-> << [ board |-> 1, returns |-> 1,
                    current_player |-> v.currentPlayer,
                    game_over |-> v.terminal,
                    move_count |-> v.moveCount,
                    moves_remaining_in_turn |-> v.movesRemainingInTurn ] >> ]

\* the states one legal action away from the state value v
Successors(g, v) ==
    IF v.terminal THEN {}
    ELSE { View(apply_action(HeapOf(v), g, 1, a).heap, 1) : a \in EmptyCells(g, v.board) }

RECURSIVE Closure(_, _, _)
Closure(g, seen, frontier) ==
    IF frontier = {} THEN seen
    ELSE LET next == UNION { Successors(g, v) : v \in frontier } \ seen
         IN  Closure(g, seen \cup next, next)

\* every state value reachable from the initial state by legal actions
Reachable(g) ==
    LET v0 == View(NewState(EmptyHeap, g), 1)
    IN  Closure(g, {v0}, {v0})

\* the state snapshot of the i-th record, by value
Snapshot(i) == View(Heap, ds[i].state)

Snapshots == { Snapshot(i) : i \in DOMAIN ds }

----------------------------------------------------------------------------
(* C11 *)

\* the dataset of the default game built without a depth limit is finished
DefaultDatasetBuilt == phase = "done" /\ game = DefaultGame /\ max_depth = <<>>

----------------------------------------------------------------------------
(* C12, C13 *)

\* the number of consecutive cells of player p met from the cell `start`,
\* walking in direction d and staying on the board
RunFrom(g, board, p, start, d) ==
    LET Owned(i) ==
          /\ <<start[1] + i * d[1], start[2] + i * d[2]>> \in Cells(g)
          /\ board[<<start[1] + i * d[1], start[2] + i * d[2]>>] = p
    IN  CHOOSE k \in 0..Max2(g.m, g.n) :
            (\A i \in 0..(k - 1) : Owned(i)) /\ ~Owned(k)

\* the longest run of player p along the directions allowed to p
LongestRun(g, board, p) ==
    SetMax({ RunFrom(g, board, p, start, d) :
               start \in Cells(g), d \in get_valid_directions(g, p) })

\* C12 as stated: every record's longest_chain_me is the longest run of the
\* player to move in the recorded state, along that player's directions, and
\* its longest_chain_opp is the longest run of the other player along the
\* other player's directions
C12_ChainsOfMover ==
    \A i \in DOMAIN ds :
        /\ ds[i].longest_chain_me =
               LongestRun(game, Snapshot(i).board, Snapshot(i).currentPlayer)
        /\ ds[i].longest_chain_opp =
               LongestRun(game, Snapshot(i).board, 1 - Snapshot(i).currentPlayer)

\* C13 as stated: in every record exactly one of winning, tied, losing is
\* true, and it is winning iff the longest run of the player to move in the
\* recorded state is greater than the other player's, losing iff smaller,
\* tied iff equal
C13_LabelsOfMover ==
    \A i \in DOMAIN ds :
        LET me == LongestRun(game, Snapshot(i).board, Snapshot(i).currentPlayer)
            opp == LongestRun(game, Snapshot(i).board, 1 - Snapshot(i).currentPlayer)
        IN  /\ Cardinality({ l \in {"winning", "tied", "losing"} : ds[i][l] }) = 1
            /\ ds[i].winning <=> me > opp
            /\ ds[i].losing <=> me < opp
            /\ ds[i].tied <=> me = opp

----------------------------------------------------------------------------
(* C14 *)

\* a record with its state object replaced by the object's value
RecordValue(H, info) == [info EXCEPT !.state = View(H, info.state)]

\* the records of a run, by value
RecordValues(H, items) == { RecordValue(H, items[i]) : i \in DOMAIN items }

\* the records of the exploration of the game without a depth limit, by value
UnlimitedRecords ==
    LET run == Exploration(game, <<>>, Ascending(game))
    IN  RecordValues(run.heap, run.ds)

\* C14: with max_depth = d no record has a ply above d, no call at a ply
\* above d gets to its loop over the actions (the deepest calls, at ply d + 1,
\* return at once), and the finished dataset holds every record of the
\* unlimited exploration whose ply is at most d, and nothing else
C14_DepthLimit ==
    max_depth # <<>> =>
        /\ \A i \in DOMAIN ds : ds[i].num_turns <= max_depth[1]
        /\ \A f \in DOMAIN stack :
              /\ stack[f].num_turns <= max_depth[1] + 1
              /\ stack[f].pc = "loop" => stack[f].num_turns <= max_depth[1]
        /\ phase = "done" =>
              RecordValues(Heap, ds) =
                  { r \in UnlimitedRecords : r.num_turns <= max_depth[1] }

\* a finished exploration cut by its limit: it has a record at the limit's
\* ply, and the unlimited exploration has deeper records
C14_Witness ==
    /\ phase = "done"
    /\ max_depth = <<1>>
    /\ \E i \in DOMAIN ds : ds[i].num_turns = 1
    /\ \E r \in UnlimitedRecords : r.num_turns > 1

----------------------------------------------------------------------------
(* C15 *)

\* the exploration of the game under its depth limit in the code's order
AscendingRun == Exploration(game, max_depth, Ascending(game))

----------------------------------------------------------------------------
(* C16, C17 *)

\* the key of the i-th record: str() of the state it holds
KeyOf(i) == str_state(Heap, game, ds[i].state)

\* no two records have the same key, and the visited keys are the keys of the
\* records, as many as there are records
KeysMatchRecords ==
    /\ \A i, j \in DOMAIN ds : KeyOf(i) = KeyOf(j) => i = j
    /\ DOMAIN visited = { KeyOf(i) : i \in DOMAIN ds }
    /\ Cardinality(DOMAIN visited) = Len(ds)

\* a step that visits a new state adds its key, and one record with that key
\* at the end; no other step touches the visited keys or the records
OneRecordPerVisit ==
    IF DOMAIN visited' # DOMAIN visited \/ ds' # ds
    THEN /\ phase = "running"
         /\ Top.pc = "enter"
         /\ str_state(Heap, game, Top.state) \notin DOMAIN visited
         /\ DOMAIN visited' = DOMAIN visited \cup {str_state(Heap, game, Top.state)}
         /\ Len(ds') = Len(ds) + 1
         /\ SubSeq(ds', 1, Len(ds)) = ds
         /\ str_state(Heap', game, ds'[Len(ds')].state) = str_state(Heap, game, Top.state)
    ELSE TRUE

\* C16: at every point of an exploration no two records have the same key,
\* the visited keys are exactly the keys of the records so far, and every
\* newly visited state adds exactly one record
C16_OneRecordPerKey == []KeysMatchRecords /\ [][OneRecordPerVisit]_vars

\* the explorer has come, with several records made, to a state it has
\* already visited
C16_Witness ==
    /\ phase = "running"
    /\ Len(ds) >= 3
    /\ Top.pc = "enter"
    /\ ~is_terminal(Heap, Top.state)
    /\ str_state(Heap, game, Top.state) \in DOMAIN visited

\* a step leaves the records as they are or adds one at the end, and every
\* record there was keeps its fields and the value of the state it holds
RecordsOnlyAppended ==
    /\ \/ ds' = ds
       \/ Len(ds') = Len(ds) + 1 /\ SubSeq(ds', 1, Len(ds)) = ds
    /\ \A i \in DOMAIN ds : RecordValue(Heap', ds'[i]) = RecordValue(Heap, ds[i])

\* C17: the dataset is append-only during the exploration, and a record, once
\* appended, never changes: neither its fields nor the state it holds
C17_AppendOnly == [][RecordsOnlyAppended]_vars

\* the explorer has applied an action to a clone of a state whose record is
\* in the dataset, and the record still holds the state as it was
C17_Witness ==
    /\ phase = "running"
    /\ Len(stack) >= 2
    /\ str_state(Heap, game, stack[Len(stack) - 1].state) \in DOMAIN visited
    /\ LET parent == stack[Len(stack) - 1].state
           i == visited[str_state(Heap, game, parent)]
       IN  /\ Snapshot(i) = View(Heap, parent)
           /\ View(Heap, Top.state).moveCount = Snapshot(i).moveCount + 1
           /\ View(Heap, Top.state).board # Snapshot(i).board

(* C18: View.filter(field=value, ...) returns a new view holding, in source *)
(* order, exactly the records in which every named field is present and    *)
(* equals the value asked for, a record lacking a named field never        *)
(* matching, and it never raises.                                          *)
HasAll(x, kwargs) ==
    \A k \in DOMAIN kwargs :
        x.type = "dict" /\ k \in DOMAIN x.value /\ x.value[k] = kwargs[k]

C18_FilterPresentAndEqual ==
    call.op = "filter" =>
        /\ call.exc = "none"
        /\ call.result \notin DOMAIN call.before
        /\ viewHeap[call.result]
              = SelectSeq(call.before[call.obj], LAMBDA x : HasAll(x, call.kwargs))

(* C19: View.filter() with no arguments returns a view with the records of *)
(* the source view in the same order, and leaves every existing view, the  *)
(* source included, as it was.                                             *)
C19_FilterNoArguments ==
    (call.op = "filter" /\ DOMAIN call.kwargs = {}) =>
        /\ call.exc = "none"
        /\ call.result \notin DOMAIN call.before
        /\ viewHeap[call.result] = call.before[call.obj]
        /\ \A v \in DOMAIN call.before : viewHeap[v] = call.before[v]

C19_Witness ==
    /\ call.op = "filter"
    /\ DOMAIN call.kwargs = {}
    /\ Len(viewHeap[call.result]) >= 2
    /\ viewHeap[call.result][1] # viewHeap[call.result][2]
    /\ \E i \in DOMAIN viewHeap[call.result] : viewHeap[call.result][i].type # "dict"

(* C20: when the predicate of a narrowing step of build_sampler raises on  *)
(* some record, nothing propagates to the caller, the step is abandoned    *)
(* and the view in use holds the records it held before; when it does not  *)
(* raise, the view in use holds exactly the records it returned true for,  *)
(* in source order.                                                        *)
C20_PredicateFaultsAbsorbed ==
    call.op = "build_sampler" =>
        IF call.fault # "none"
        THEN /\ call.exc = "none"
             /\ sampler.status = "running"
             /\ viewHeap[sampler.view] = call.before[call.obj]
        ELSE viewHeap[sampler.view]
                = SelectSeq(call.before[call.obj], LAMBDA x : Apply(call.fn, x) = "true")

(* C21: View.sample(k) without replacement and with k greater than the    *)
(* size of the view does not raise and returns every record of the view    *)
(* exactly once; on an empty view sample returns an empty sequence for     *)
(* every k and either mode.                                                *)
C21_SampleFallback ==
    call.op = "sample" =>
        LET items == viewHeap[call.obj]
        IN  /\ call.exc = "none"
            /\ viewHeap = call.before
            /\ (~call.replace /\ call.k > Len(items)) =>
                  /\ Len(call.result) = Len(items)
                  /\ \A i \in DOMAIN items :
                        Cardinality({ j \in DOMAIN call.picks : call.picks[j] = i }) = 1
                  /\ \A j \in DOMAIN call.result : call.result[j] = items[call.picks[j]]
            /\ items = <<>> => call.result = <<>>

C21_Witness ==
    /\ call.op = "sample"
    /\ ~call.replace
    /\ Len(viewHeap[call.obj]) = 2
    /\ call.k > 2
    /\ call.picks = <<2, 1>>
    /\ viewHeap[call.obj][1] # viewHeap[call.obj][2]

(* C22: constructing a game fails with ValueError exactly when, for some   *)
(* player, neither the number of rows nor the number of columns is at      *)
(* least that player's win length; otherwise construction succeeds.        *)
Fits(g, p) == g.m >= get_win_length(g, p) \/ g.n >= get_win_length(g, p)

C22_ConstructionFailsWhenTooSmall ==
    call.op = "MNKGame" =>
        /\ call.exc \in {"none", "ValueError"}
        /\ call.exc = "ValueError" <=> \E p \in Players : ~Fits(game, p)

C22_Witness ==
    /\ call.op = "MNKGame"
    /\ call.exc = "ValueError"
    /\ Fits(game, 0)
    /\ ~Fits(game, 1)
    /\ game.m # game.n

(* C23: in every game whose constructor returned, each player's win length *)
(* is base K plus the player's bonus and is at least 1, so a state with    *)
(* one stone placed is won only when the mover's win length is 1.          *)
Constructed == call.op # "none" /\ (call.op = "MNKGame" => call.exc = "none")

C23_WinLengthAtLeastOne ==
    Constructed =>
        /\ \A p \in Players :
              /\ get_win_length(game, p) = game.base_k + DictGet(game.rules.extra_k, p, 0)
              /\ get_win_length(game, p) >= 1
        /\ (Len(movers) = 1 /\ is_terminal(Heap, Root) /\ game.m * game.n > 1)
              => get_win_length(game, movers[1]) = 1

(* C24: the initial state has an empty board, currentPlayer 0, moveCount 0 *)
(* and the countdown openingMoves[0]; after a placement that does not end  *)
(* the game currentPlayer changes exactly when the countdown reached zero, *)
(* and then the countdown is the new player's opening-move count when      *)
(* moveCount <= 1 and 1 otherwise; every non-terminal state has a          *)
(* countdown of at least 1.                                                *)
CountdownLeft == Pre.movesRemainingInTurn - 1

C24_TurnAdvance ==
    /\ call.op = "new_initial_state" =>
          /\ \A cell \in Cells(game) : Cur.board[cell] = EMPTY
          /\ Cur.currentPlayer = 0
          /\ Cur.moveCount = 0
          /\ Cur.movesRemainingInTurn = OpeningMoves(0)
    /\ (PlacedLegally /\ ~Cur.terminal) =>
          /\ Cur.currentPlayer # Pre.currentPlayer <=> CountdownLeft = 0
          /\ Cur.movesRemainingInTurn
                = IF CountdownLeft # 0 THEN CountdownLeft
                  ELSE IF Cur.moveCount <= 1 THEN OpeningMoves(Cur.currentPlayer)
                  ELSE 1
    /\ ~Cur.terminal => Cur.movesRemainingInTurn >= 1

C24_Witness ==
    /\ PlacedLegally
    /\ ~Cur.terminal
    /\ CountdownLeft = 0
    /\ Cur.moveCount = 2
    /\ Cur.currentPlayer = 1
    /\ OpeningMoves(1) = 2
    /\ Cur.movesRemainingInTurn = 1

(* C25: every sequence of legal transitions from the initial state reaches *)
(* a terminal state after at most rows*cols transitions and visits no      *)
(* state twice, so the explorer terminates, also without a depth limit.    *)
\* the states of the calls in progress: the path from the initial state to
\* the state the explorer is at
PathState(i) == View(Heap, stack[i].state)

PathBounded ==
    \A i \in DOMAIN stack :
        /\ PathState(i).moveCount = i - 1
        /\ stack[i].num_turns = i - 1
        /\ i - 1 <= game.m * game.n
        /\ i - 1 = game.m * game.n => PathState(i).terminal
        /\ \A j \in DOMAIN stack : i # j => PathState(i) # PathState(j)

C25_ExplorerTerminates == []PathBounded /\ <>(phase = "done")

C25_Witness ==
    /\ phase = "done"
    /\ max_depth = <<>>
    /\ game.m * game.n >= 4
    /\ Len(ds) >= 4

(* C26: the explorer's key renders the board alone, and two states         *)
(* reachable by legal actions that have the same board have the same       *)
(* currentPlayer, movesRemainingInTurn, terminal flag and returns, under   *)
(* every rule set: a state the explorer skips as seen agrees in all of     *)
(* these with the state recorded under its key.                            *)
Turn(v) == <<v.currentPlayer, v.movesRemainingInTurn, v.terminal, v.returns>>

\* the explorer is at a call whose state has a key it has seen
AtSeenKey ==
    /\ phase = "running"
    /\ Top.pc = "enter"
    /\ str_state(Heap, game, Top.state) \in DOMAIN visited

C26_SameBoardSameTurn ==
    /\ AtSeenKey =>
          LET here == View(Heap, Top.state)
              seen == Snapshot(visited[str_state(Heap, game, Top.state)])
          IN  here.board = seen.board /\ Turn(here) = Turn(seen)
    /\ (phase = "done" /\ max_depth = <<>>) =>
          \A v, w \in Reachable(game) : v.board = w.board => Turn(v) = Turn(w)

C26_Witness ==
    /\ AtSeenKey
    /\ game.rules.opening_moves # <<>>
    /\ game.rules.extra_k # <<>>
    /\ game.rules.allowed_directions # <<>>
    /\ game.rules.misere
    /\ Top.num_turns >= 2

(* C27: in every state reached by legal actions moveCount is the number of *)
(* non-empty cells, and in every record num_turns is the moveCount of the  *)
(* snapshot and freespace is rows*cols minus num_turns, whatever path the  *)
(* explorer took to the state.                                             *)
Stones(v) == Cardinality({ cell \in DOMAIN v.board : v.board[cell] # EMPTY })

C27_PlyCountsStones ==
    /\ \A i \in DOMAIN stack : PathState(i).moveCount = Stones(PathState(i))
    /\ \A i \in DOMAIN ds :
          /\ Snapshot(i).moveCount = Stones(Snapshot(i))
          /\ ds[i].num_turns = Snapshot(i).moveCount
          /\ ds[i].freespace = game.m * game.n - ds[i].num_turns

C27_Witness ==
    /\ AtSeenKey
    /\ \E i \in DOMAIN ds :
          /\ Snapshot(i).board = PathState(Len(stack)).board
          /\ ds[i].num_turns = Top.num_turns
          /\ ds[i].num_turns >= 3
          /\ ds[i].freespace >= 1

(* C28: in every non-terminal state reached by legal actions neither       *)
(* player owns a run of its own win length along one of its own allowed    *)
(* directions.                                                             *)
C28_NoRunLeftUndetected ==
    ~Cur.terminal => \A p \in Players : ~HasRun(game, Cur.board, p)

C28_Witness ==
    /\ PlacedLegally
    /\ ~Cur.terminal
    /\ Stones(Cur) >= 4
    /\ get_win_length(game, 0) # get_win_length(game, 1)
    /\ game.rules.allowed_directions # <<>>
    /\ \E p \in Players : get_valid_directions(game, p) # {}

(* C29: apply_action on a non-terminal state with an action index in range *)
(* leaves every occupied cell with its owner, and moveCount grows only     *)
(* when an empty cell was filled.                                          *)
C29_OccupiedCellsKept ==
    (Applied /\ ~Pre.terminal /\ InRange(game, call.action)) =>
        /\ \A cell \in Cells(game) :
              Pre.board[cell] # EMPTY => Cur.board[cell] = Pre.board[cell]
        /\ Cur.moveCount > Pre.moveCount => Pre.board[CellOf(game, call.action)] = EMPTY

====
